---- MODULE Spec2Model ----
(***************************************************************************)
(* The calculator of praetoriandroid/calculator: main (calc.cpp) reads a   *)
(* formula, calculate (engine.cpp) tokenizes it, parses the tokens into an *)
(* expression tree by precedence climbing and evaluates the tree.          *)
(*                                                                         *)
(* A formula is a sequence of one-character strings.  Token indices and    *)
(* character offsets are 0-based as in the source; the TLA+ sequences that *)
(* hold them are 1-based, so tokens[k + 1] is the source's tokens[k].      *)
(*                                                                         *)
(* A double is the triple <<sign, n, d>> standing for sign * n / d with    *)
(* gcd(n, d) = 1: d > 0 is a finite value (n = 0 a signed zero), <<s,1,0>> *)
(* is an infinity and <<1,0,0>> is NaN.  Arithmetic is exact on these      *)
(* triples: binary rounding is not modelled.                               *)
(***************************************************************************)
EXTENDS Integers, Sequences, FiniteSets, TLC

VARIABLES formula, pc, i, number_token, number_start, tokens,
          stack, ret, thrown, result, reads, out

vars == <<formula, pc, i, number_token, number_start, tokens,
          stack, ret, thrown, result, reads, out>>

(* ------------------------------ bounds -------------------------------- *)

\* Longest formula of the parser runs (Spec).
MaxLen == 5

\* Longest formula of the lexer runs (SpecLex).
MaxLexLen == 5

\* How many token slots past the end of the token vector are readable
\* memory; a read further out faults.
MaxBeyond == 2

(* --------------------------- program constants ------------------------ *)

lowest == 0

first == 1

second == 2

\* std::string(500, '3') of the test suite.
LongRun == 500

\* DBL_MAX has 309 decimal digits: a longer integer part is not finite.
MaxIntDigits == 309

(* ------------------------------ doubles ------------------------------- *)

RECURSIVE Gcd(_, _)
Gcd(a, b) == IF b = 0 THEN a ELSE Gcd(b, a % b)

NaN == <<1, 0, 0>>

Zero == <<1, 0, 1>>

Inf == <<1, 1, 0>>

Norm(s, n, d) ==
    IF n = 0 /\ d = 0 THEN NaN
    ELSE LET g == Gcd(n, d) IN <<s, n \div g, d \div g>>

IsNaN(x) == x[2] = 0 /\ x[3] = 0

IsInf(x) == x[2] # 0 /\ x[3] = 0

IsZero(x) == x[2] = 0 /\ x[3] # 0

\* Mutant of isnormal: std::isfinite is used instead, which accepts zero.
isnormal_as_isfinite(x) == x[3] # 0

\* std::isnormal: neither zero, subnormal, infinite nor NaN.  A finite
\* non-zero value read from at most MaxIntDigits - 1 characters is never
\* subnormal, and longer runs do not reach here as finite values.
isnormal(x) == x[2] # 0 /\ x[3] # 0

\* left * right
DMul(a, b) ==
    IF IsNaN(a) \/ IsNaN(b) THEN NaN
    ELSE Norm(a[1] * b[1], a[2] * b[2], a[3] * b[3])

\* left / right: left times the reciprocal, 1/0 an infinity, 0/0 NaN.
DDiv(a, b) ==
    IF IsNaN(a) \/ IsNaN(b) THEN NaN
    ELSE Norm(a[1] * b[1], a[2] * b[3], a[3] * b[2])

\* left + right
DAdd(a, b) ==
    IF IsNaN(a) \/ IsNaN(b) THEN NaN
    ELSE IF IsInf(a) THEN (IF IsInf(b) /\ a[1] # b[1] THEN NaN ELSE a)
    ELSE IF IsInf(b) THEN b
    ELSE LET num == a[1] * a[2] * b[3] + b[1] * b[2] * a[3]
             den == a[3] * b[3]
         IN  IF num = 0
             THEN <<(IF IsZero(a) /\ IsZero(b) /\ a[1] = -1 /\ b[1] = -1
                     THEN -1 ELSE 1), 0, 1>>
             ELSE IF num < 0 THEN Norm(-1, -num, den) ELSE Norm(1, num, den)

\* left - right
DSub(a, b) == DAdd(a, IF IsNaN(b) THEN NaN ELSE <<-b[1], b[2], b[3]>>)

\* The int -1 converted to double.
MinusOne == <<-1, 1, 1>>

(* ------------------------------ the lexer ----------------------------- *)

Digits == <<"0", "1", "2", "3", "4", "5", "6", "7", "8", "9">>

IsDigit(c) == \E k \in 1..10 : Digits[k] = c

DigitValue(c) == (CHOOSE k \in 1..10 : Digits[k] = c) - 1

\* symbol >= '0' && symbol <= '9' || symbol == '.'
IsNumeric(c) == IsDigit(c) \/ c = "."

\* Length of the longest run of digits of s that starts at s[from].
DigitRun(s, from) ==
    CHOOSE n \in 0..(Len(s) + 1 - from) :
        /\ \A k \in from..(from + n - 1) : IsDigit(s[k])
        /\ (from + n > Len(s) \/ ~IsDigit(s[from + n]))

RECURSIVE Pow10(_)
Pow10(k) == IF k = 0 THEN 1 ELSE 10 * Pow10(k - 1)

\* The integer a run of digits s[from..from+len-1] denotes.
RECURSIVE DigitsValue(_, _, _)
DigitsValue(s, from, len) ==
    IF len = 0 THEN 0
    ELSE 10 * DigitsValue(s, from, len - 1) + DigitValue(s[from + len - 1])

\* Number of digits of s[from..from+len-1] once its leading zeros are dropped.
Significant(s, from, len) ==
    len - (CHOOSE z \in 0..len :
               /\ \A k \in from..(from + z - 1) : s[k] = "0"
               /\ (z = len \/ s[from + z] # "0"))

\* std::strtod on a string of digits and dots: the longest prefix
\* digits [. digits] holding at least one digit is converted; without one
\* nothing is consumed and 0 is returned.  An integer part too long for a
\* double gives HUGE_VAL.  The result is [value, end], end the number of
\* characters consumed.
strtod(s) ==
    LET a   == DigitRun(s, 1)
        dot == a + 1 <= Len(s) /\ s[a + 1] = "."
        b   == IF dot THEN DigitRun(s, a + 2) ELSE 0
    IN  IF a + b = 0 THEN [value |-> Zero, end |-> 0]
        ELSE IF Significant(s, 1, a) > MaxIntDigits
             THEN [value |-> Inf, end |-> a + (IF dot THEN 1 + b ELSE 0)]
        ELSE [value |-> Norm(1, DigitsValue(s, 1, a) * Pow10(b)
                                 + DigitsValue(s, a + 2, b), Pow10(b)),
              end   |-> a + (IF dot THEN 1 + b ELSE 0)]

\* parser::parse_number: the value, or the parse_exception it throws.
\* std::strtod throws nothing, so the handler of std::logic_error is dead.
parse_number(number, start) ==
    LET r == strtod(number)
    IN  IF r.end # Len(number) \/ ~isnormal(r.value)
        THEN [ok |-> FALSE, value |-> Zero,
              error |-> [kind |-> "parse_exception", start_position |-> start,
                         message |-> "Number too long"]]
        ELSE [ok |-> TRUE, value |-> r.value,
              error |-> [kind |-> "none", start_position |-> 0, message |-> ""]]

\* token(type, start_position, value = 0)
token(type, start_position, value) ==
    [type |-> type, start_position |-> start_position, value |-> value]

\* The switch of parser::tokenize: the token type of a symbol, "" for a
\* space and "default" for any other character.
SymbolType(c) ==
    CASE c = " " -> ""
      [] c = "(" -> "opening_parenthesis"
      [] c = ")" -> "closing_parenthesis"
      [] c = "+" -> "plus"
      [] c = "-" -> "minus"
      [] c = "*" -> "multiply"
      [] c = "/" -> "divide"
      [] OTHER   -> "default"

(* --------------------------- expression trees ------------------------- *)

NoExpr == <<>>

number(value) == <<"number", value>>

negative(content) == <<"negative", content>>

parentheses(content) == <<"parentheses", content>>

\* parser::create_two_operand_expression
create_two_operand_expression(left, operator, right) ==
    CASE operator = "multiply" -> <<"multiply", left, right>>
      [] operator = "divide"   -> <<"divide", left, right>>
      [] operator = "plus"     -> <<"add", left, right>>
      [] operator = "minus"    -> <<"subtract", left, right>>

\* expression::consumed_tokens of the seven node classes.
RECURSIVE consumed_tokens(_)
consumed_tokens(e) ==
    CASE e[1] = "number"      -> 1
      [] e[1] = "negative"    -> consumed_tokens(e[2]) + 1
      [] e[1] = "parentheses" -> consumed_tokens(e[2]) + 2
      [] OTHER                -> consumed_tokens(e[2]) + consumed_tokens(e[3]) + 1

\* expression::calc of the seven node classes.
RECURSIVE calc(_)
calc(e) ==
    CASE e[1] = "number"      -> e[2]
      [] e[1] = "negative"    -> DMul(MinusOne, calc(e[2]))
      [] e[1] = "parentheses" -> calc(e[2])
      [] e[1] = "add"         -> DAdd(calc(e[2]), calc(e[3]))
      [] e[1] = "subtract"    -> DSub(calc(e[2]), calc(e[3]))
      [] e[1] = "multiply"    -> DMul(calc(e[2]), calc(e[3]))
      [] e[1] = "divide"      -> DDiv(calc(e[2]), calc(e[3]))

(* ------------------------------ the parser ---------------------------- *)

TokenTypes == {"number", "opening_parenthesis", "closing_parenthesis",
               "multiply", "divide", "plus", "minus"}

\* tokens[k] of the source lies inside the vector.
InBounds(k) == k >= 0 /\ k < Len(tokens)

\* What a read of tokens[k].type can give.  Inside the vector it is the
\* token's type.  Past its end the read is undefined behaviour: within
\* MaxBeyond slots it gives whatever the memory holds, a token type or a
\* value of no enumerator ("invalid"); further out, or before the vector,
\* it faults ("fault").
TypesAt(k) ==
    IF InBounds(k) THEN {tokens[k + 1].type}
    ELSE IF k >= Len(tokens) /\ k < Len(tokens) + MaxBeyond
         THEN TokenTypes \cup {"invalid", "fault"}
         ELSE {"fault"}

\* What a read of tokens[k].start_position can give.
PositionsAt(k) ==
    IF InBounds(k) THEN {tokens[k + 1].start_position} ELSE {-2, 0, Len(formula) + 1}

\* What token::value() on tokens[k] can give.
ValuesAt(k) ==
    IF InBounds(k) THEN {tokens[k + 1].value} ELSE {Zero, <<1, 1, 1>>, NaN}

\* Mutant of parse_operator: the default branch is missing and falls into
\* the last case.
parse_operator_no_default(type) ==
    CASE type = "plus"     -> "plus"
      [] type = "minus"    -> "minus"
      [] type = "multiply" -> "multiply"
      [] OTHER             -> "divide"

\* parser::parse_operator: the operator of a token type, "" when the
\* default branch throws.
parse_operator(type) ==
    CASE type = "plus"     -> "plus"
      [] type = "minus"    -> "minus"
      [] type = "multiply" -> "multiply"
      [] type = "divide"   -> "divide"
      [] OTHER             -> ""

\* parser::get_priority
get_priority(operator) ==
    CASE operator \in {"minus", "plus"}      -> first
      [] operator \in {"multiply", "divide"} -> second

\* parser::find_closing_parenthesis(start, end): the loop from index k on
\* with the given depth; -1 when the loop runs out, -2 when it throws
\* broken_parser_exception("Missed closing parenthesis").
RECURSIVE find_closing_parenthesis_from(_, _, _)
find_closing_parenthesis_from(k, end, depth) ==
    IF k > end THEN -1
    ELSE IF tokens[k + 1].type = "closing_parenthesis"
         THEN IF depth = 0 THEN k
              ELSE IF depth > 0
                   THEN find_closing_parenthesis_from(k + 1, end, depth - 1)
                   ELSE -2
    ELSE IF tokens[k + 1].type = "opening_parenthesis"
         THEN find_closing_parenthesis_from(k + 1, end, depth + 1)
    ELSE find_closing_parenthesis_from(k + 1, end, depth)

\* Mutant of find_closing_parenthesis: the depth is not counted, the first
\* closing parenthesis is taken.
find_closing_parenthesis_first(start, end) ==
    IF \E k \in start..end : tokens[k + 1].type = "closing_parenthesis"
    THEN CHOOSE k \in start..end :
             /\ tokens[k + 1].type = "closing_parenthesis"
             /\ \A j \in start..(k - 1) : tokens[j + 1].type # "closing_parenthesis"
    ELSE -1

find_closing_parenthesis(start, end) == find_closing_parenthesis_from(start, end, 0)

\* An activation record of parse_range, parse_operand or parse_parentheses.
\* at: where the activation stands.  result, consumed, op, prio are
\* parse_range's locals (consumed is its consumed_tokens).
Frame(fn, at, start, end, prio) ==
    [fn |-> fn, at |-> at, start |-> start, end |-> end, prio |-> prio,
     result |-> NoExpr, consumed |-> 0, op |-> ""]

\* A call of parse_range(start, end, parent_priority): its first statement
\* calls parse_operand(start, end).
CallRange(stk, start, end, parent_priority) ==
    stk \o << Frame("parse_range", "operand", start, end, parent_priority),
              Frame("parse_operand", "begin", start, end, lowest) >>

Top == stack[Len(stack)]

Pop == SubSeq(stack, 1, Len(stack) - 1)

SetTop(f) == [stack EXCEPT ![Len(stack)] = f]

NoRet == [expr |-> NoExpr, fn |-> "", start |-> 0, end |-> 0]

NoThrow == [kind |-> "none", start_position |-> 0, message |-> ""]

parse_exception(start_position, message) ==
    [kind |-> "parse_exception", start_position |-> start_position,
     message |-> message]

\* broken_parser_exception(message): no start_position, and the message
\* prefixed.
broken_parser_exception(message) ==
    [kind |-> "broken_parser_exception", start_position |-> 0,
     message |-> "Broken parser: " \o message]

NoOut == [stdout |-> <<>>, stderr |-> <<>>, status |-> "running"]

\* A throw of e inside calculate: the stack unwinds to main's handler.
Throw(e) ==
    /\ thrown' = e
    /\ pc' = "main"
    /\ stack' = <<>>
    /\ ret' = NoRet

\* A faulting read: the process is killed.
Fault ==
    /\ thrown' = [kind |-> "fault", start_position |-> 0, message |-> ""]
    /\ pc' = "exit"
    /\ stack' = <<>>
    /\ ret' = NoRet

\* return e from the activation on top of the stack.
Return(e) ==
    /\ ret' = [expr |-> e, fn |-> Top.fn, start |-> Top.start, end |-> Top.end]
    /\ stack' = Pop

(* ------------------------------ actions -------------------------------- *)

\* One iteration of the for loop of parser::tokenize, on formula[i].
tokenize ==
    /\ pc = "tokenize"
    /\ i < Len(formula)
    /\ LET symbol == formula[i + 1] IN
       IF IsNumeric(symbol)
       THEN LET ns == IF number_token = <<>> THEN i ELSE number_start
                nt == Append(number_token, symbol)
                pn == parse_number(nt, ns)
            IN  /\ number_start' = ns
                /\ number_token' = nt
                /\ IF i = Len(formula) - 1 /\ ~pn.ok
                   THEN Throw(pn.error) /\ UNCHANGED <<i, tokens>>
                   ELSE /\ tokens' = IF i = Len(formula) - 1
                                     THEN Append(tokens, token("number", ns, pn.value))
                                     ELSE tokens
                        /\ i' = i + 1
                        /\ UNCHANGED <<pc, stack, ret, thrown>>
       ELSE LET pending == number_token # <<>>
                pn      == parse_number(number_token, number_start)
                flushed == IF pending
                           THEN Append(tokens, token("number", number_start, pn.value))
                           ELSE tokens
                type    == SymbolType(symbol)
            IN  IF pending /\ ~pn.ok
                THEN Throw(pn.error) /\ UNCHANGED <<i, tokens, number_token, number_start>>
                ELSE /\ number_token' = <<>>
                     /\ UNCHANGED number_start
                     /\ IF type = "default"
                        THEN /\ Throw(parse_exception(i, "Unexpected symbol"))
                             /\ tokens' = flushed
                             /\ UNCHANGED i
                        ELSE /\ tokens' = IF type = "" THEN flushed
                                          ELSE Append(flushed, token(type, i, Zero))
                             /\ i' = i + 1
                             /\ UNCHANGED <<pc, stack, ret, thrown>>
    /\ UNCHANGED <<formula, result, reads, out>>

\* Mutant of empty: the test of parse for an empty token vector is missing.
empty_never(v) == FALSE

\* tokens.empty()
empty(v) == v = <<>>

\* parser::parse once tokenize has returned.
parse ==
    /\ pc = "tokenize"
    /\ i = Len(formula)
    /\ IF empty(tokens)
       THEN Throw(parse_exception(0, "Empty input"))
       ELSE /\ stack' = CallRange(<<>>, 0, Len(tokens) - 1, lowest)
            /\ pc' = "parse"
            /\ UNCHANGED <<ret, thrown>>
    /\ UNCHANGED <<formula, i, number_token, number_start, tokens, result, reads, out>>

\* parser::parse_parentheses(start, end), called by parse_operand as its
\* return value, up to its call of parse_range.
parse_parentheses(start, end) ==
    LET closing_parenthesis_index == find_closing_parenthesis(start + 1, end)
        scanned == IF closing_parenthesis_index = -1 THEN (start + 1)..end
                   ELSE (start + 1)..closing_parenthesis_index
    IN  /\ reads' = reads \cup {start} \cup scanned
        /\ IF closing_parenthesis_index = -2
           THEN Throw(broken_parser_exception("Missed closing parenthesis"))
           ELSE IF closing_parenthesis_index = -1
           THEN \E p \in PositionsAt(start) :
                    Throw(parse_exception(p, "Unclosed parenthesis"))
           ELSE IF closing_parenthesis_index = start + 1
           THEN \E p \in PositionsAt(start) :
                    Throw(parse_exception(p, "Empty parentheses"))
           ELSE /\ stack' = CallRange(
                       SetTop(Frame("parse_parentheses", "content", start, end, lowest)),
                       start + 1, closing_parenthesis_index - 1, lowest)
                /\ UNCHANGED <<pc, ret, thrown>>

\* Mutant of operand_case: the orphan test compares with the wrong index.
operand_case_off_by_one(type, start, end) ==
    CASE type = "opening_parenthesis" -> "parse_parentheses"
      [] type = "minus"  -> IF start + 1 = end THEN "Orphan minus" ELSE "negative"
      [] type = "number" -> "number"
      [] type = "fault"  -> "fault"
      [] OTHER           -> "Unexpected token"

\* The switch of parser::parse_operand on the type of tokens[start], with
\* the test start == end of its minus case.
operand_case(type, start, end) ==
    CASE type = "opening_parenthesis" -> "parse_parentheses"
      [] type = "minus"  -> IF start = end THEN "Orphan minus" ELSE "negative"
      [] type = "number" -> "number"
      [] type = "fault"  -> "fault"
      [] OTHER           -> "Unexpected token"

\* parser::parse_operand(start, end) up to its first call or its return.
parse_operand ==
    /\ pc = "parse"
    /\ stack # <<>>
    /\ Top.fn = "parse_operand"
    /\ Top.at = "begin"
    /\ LET start == Top.start
           end   == Top.end
       IN  \E type \in TypesAt(start) :
             LET case == operand_case(type, start, end) IN
             CASE case = "parse_parentheses" -> parse_parentheses(start, end)
               [] case = "Orphan minus" ->
                    /\ reads' = reads \cup {start}
                    /\ \E p \in PositionsAt(start) :
                           Throw(parse_exception(p, "Orphan minus"))
               [] case = "negative" ->
                    /\ reads' = reads \cup {start}
                    /\ stack' = Append(SetTop([Top EXCEPT !.at = "content"]),
                                   Frame("parse_operand", "begin", start + 1, end, lowest))
                    /\ UNCHANGED <<pc, ret, thrown>>
               [] case = "number" ->
                    /\ reads' = reads \cup {start}
                    /\ \E v \in ValuesAt(start) : Return(number(v))
                    /\ UNCHANGED <<pc, thrown>>
               [] case = "fault" ->
                    /\ reads' = reads \cup {start}
                    /\ Fault
               [] OTHER ->
                    /\ reads' = reads \cup {start}
                    /\ \E p \in PositionsAt(start) :
                           Throw(parse_exception(p, "Unexpected token"))
    /\ UNCHANGED <<formula, i, number_token, number_start, tokens, result, out>>

\* parse_operand's return new negative(parse_operand(start + 1, end)).
return_negative ==
    /\ pc = "parse"
    /\ stack # <<>>
    /\ ret # NoRet
    /\ Top.fn = "parse_operand"
    /\ Return(negative(ret.expr))
    /\ UNCHANGED <<formula, pc, i, number_token, number_start, tokens, thrown,
                   result, reads, out>>

\* parse_parentheses's return new parentheses(content), which parse_operand
\* returns in turn.
return_parentheses ==
    /\ pc = "parse"
    /\ stack # <<>>
    /\ ret # NoRet
    /\ Top.fn = "parse_parentheses"
    /\ ret' = [expr |-> parentheses(ret.expr), fn |-> "parse_operand",
               start |-> Top.start, end |-> Top.end]
    /\ stack' = Pop
    /\ UNCHANGED <<formula, pc, i, number_token, number_start, tokens, thrown,
                   result, reads, out>>

\* The assignments of parse_range after a call returns: lines 190-191 after
\* parse_operand, lines 204-205 after the recursive parse_range.
parse_range_resume ==
    /\ pc = "parse"
    /\ stack # <<>>
    /\ ret # NoRet
    /\ Top.fn = "parse_range"
    /\ LET r == IF Top.at = "operand" THEN ret.expr
                ELSE create_two_operand_expression(Top.result, Top.op, ret.expr)
       IN  stack' = SetTop([Top EXCEPT !.at = "loop", !.result = r,
                                       !.consumed = consumed_tokens(r)])
    /\ ret' = NoRet
    /\ UNCHANGED <<formula, pc, i, number_token, number_start, tokens, thrown,
                   result, reads, out>>

\* One test of the while condition of parse_range and, when it holds, the
\* loop body up to its return or its recursive call.
parse_range_loop ==
    /\ pc = "parse"
    /\ stack # <<>>
    /\ ret = NoRet
    /\ Top.fn = "parse_range"
    /\ Top.at = "loop"
    /\ LET available_tokens == Top.end - Top.start + 1 IN
       IF available_tokens > Top.consumed
       THEN LET next_operator_index == Top.start + consumed_tokens(Top.result) IN
            /\ reads' = reads \cup {next_operator_index}
            /\ \E type \in TypesAt(next_operator_index) :
                 LET next_operator == parse_operator(type)
                     consumed      == Top.consumed + 1
                 IN  IF type = "fault" THEN Fault
                     ELSE IF next_operator = ""
                     THEN \E p \in PositionsAt(next_operator_index) :
                           Throw(parse_exception(p, "Unexpected token: operator needed"))
                     ELSE IF get_priority(next_operator) <= Top.prio
                     THEN Return(Top.result) /\ UNCHANGED <<pc, thrown>>
                     ELSE /\ stack' = CallRange(
                                SetTop([Top EXCEPT !.at = "operand2", !.op = next_operator,
                                                   !.consumed = consumed]),
                                Top.start + consumed, Top.end,
                                get_priority(next_operator))
                          /\ UNCHANGED <<pc, ret, thrown>>
       ELSE Return(Top.result) /\ UNCHANGED <<pc, thrown, reads>>
    /\ UNCHANGED <<formula, i, number_token, number_start, tokens, result, out>>

\* calculate once parser::parse has returned the tree.
calculate ==
    /\ pc = "parse"
    /\ stack = <<>>
    /\ ret # NoRet
    /\ result' = calc(ret.expr)
    /\ pc' = "main"
    /\ UNCHANGED <<formula, i, number_token, number_start, tokens, stack, ret,
                   thrown, reads, out>>

\* Mutant of Spaces: one space less.
Spaces_one_less(n) == [k \in 1..(n - 1) |-> " "]

\* std::string(n, ' ')
Spaces(n) == [k \in 1..n |-> " "]

\* main after calculate: the result on std::cout (a line holding the double:
\* its formatting is not modelled), or the handler of parse_exception.
\* Nothing catches a broken_parser_exception, nor the std::length_error
\* that std::string(n, ' ') throws for n < 0.
main ==
    /\ pc = "main"
    /\ pc' = "exit"
    /\ IF thrown.kind = "none"
       THEN out' = [stdout |-> << <<result>> >>, stderr |-> <<>>,
                    status |-> "EXIT_SUCCESS"]
       ELSE IF thrown.kind = "broken_parser_exception"
       THEN out' = [stdout |-> <<>>, stderr |-> <<>>, status |-> "abort"]
       ELSE IF thrown.start_position + 1 < 0
       THEN out' = [stdout |-> <<>>,
                    stderr |-> << <<"Invalid input:">>, <<"\"">> \o formula \o <<"\"">> >>,
                    status |-> "abort"]
       ELSE out' = [stdout |-> <<>>,
                    stderr |-> << <<"Invalid input:">>,
                                  <<"\"">> \o formula \o <<"\"">>,
                                  Spaces(thrown.start_position + 1) \o <<"^">>,
                                  <<thrown.message>> >>,
                    status |-> "EXIT_FAILURE"]
    /\ UNCHANGED <<formula, i, number_token, number_start, tokens, stack, ret,
                   thrown, result, reads>>

(* --------------------------- specifications ---------------------------- *)

\* All the sequences over A of length at most n.
Strings(A, n) == UNION {[1..k -> A] : k \in 0..n}

ParserAlphabet == {"2", " ", "(", ")", "+", "-", "*", "/"}

LexerAlphabet == {"0", "3", ".", " ", "(", ")", "-", "a"}

\* The state when main has read the formula and calls calculate.
Start(f) ==
    /\ formula = f
    /\ pc = "tokenize"
    /\ i = 0
    /\ number_token = <<>>
    /\ number_start = 0
    /\ tokens = <<>>
    /\ stack = <<>>
    /\ ret = NoRet
    /\ thrown = NoThrow
    /\ result = Zero
    /\ reads = {}
    /\ out = NoOut

Init == \E f \in Strings(ParserAlphabet, MaxLen) : Start(f)

InitLex == \E f \in Strings(LexerAlphabet, MaxLexLen) \cup {[k \in 1..LongRun |-> "3"]} : Start(f)

Next ==
    \/ tokenize
    \/ parse
    \/ parse_operand
    \/ return_negative
    \/ return_parentheses
    \/ parse_range_resume
    \/ parse_range_loop
    \/ calculate
    \/ main

Spec == Init /\ [][Next]_vars

SpecLex == InitLex /\ [][Next]_vars

(* ------------------------------ the claims ----------------------------- *)

Operators == {"plus", "minus", "multiply", "divide"}

\* The token types an expression tree was built from, in order.
RECURSIVE TokensOf(_)
TokensOf(e) ==
    CASE e[1] = "number"      -> <<"number">>
      [] e[1] = "negative"    -> <<"minus">> \o TokensOf(e[2])
      [] e[1] = "parentheses" ->
             <<"opening_parenthesis">> \o TokensOf(e[2]) \o <<"closing_parenthesis">>
      [] e[1] = "add"         -> TokensOf(e[2]) \o <<"plus">> \o TokensOf(e[3])
      [] e[1] = "subtract"    -> TokensOf(e[2]) \o <<"minus">> \o TokensOf(e[3])
      [] e[1] = "multiply"    -> TokensOf(e[2]) \o <<"multiply">> \o TokensOf(e[3])
      [] e[1] = "divide"      -> TokensOf(e[2]) \o <<"divide">> \o TokensOf(e[3])

\* parse_range holds a complete operand and tokens of its range remain.
OperatorExpected ==
    /\ pc = "parse"
    /\ stack # <<>>
    /\ ret = NoRet
    /\ Top.fn = "parse_range"
    /\ Top.at = "loop"
    /\ Len(TokensOf(Top.result)) < Top.end - Top.start + 1

\* The index of the token that follows the operand parse_range holds.
NextIndex == Top.start + Len(TokensOf(Top.result))

\* parse_operand is about to take an operand at a token of the input.
OperandExpected ==
    /\ pc = "parse"
    /\ stack # <<>>
    /\ Top.fn = "parse_operand"
    /\ Top.at = "begin"
    /\ InBounds(Top.start)

\* C2: calculate ends by returning a number or by throwing one
\* parse_exception, nothing else, and every token the parser reads lies at
\* an index 0 .. number of tokens - 1.
C2_NumberOrParseError ==
    /\ thrown.kind \in {"none", "parse_exception"}
    /\ reads \subseteq 0..(Len(tokens) - 1)

\* C2 for the runs in which no read leaves the token vector.
C2_NumberOrParseErrorInside ==
    reads \subseteq 0..(Len(tokens) - 1) => thrown.kind \in {"none", "parse_exception"}

\* C3: when an operand is complete, tokens remain in the range and the next
\* token is no operator, the parse fails with "Unexpected token: operator
\* needed" at that token's start offset.
C3_OperatorNeeded ==
    [][ (OperatorExpected /\ InBounds(NextIndex)
           /\ tokens[NextIndex + 1].type \notin Operators)
        => thrown' = parse_exception(tokens[NextIndex + 1].start_position,
                                     "Unexpected token: operator needed") ]_vars

\* "3 2" fails at offset 2.
C3_Witness ==
    /\ formula = <<"2", " ", "2">>
    /\ thrown = parse_exception(2, "Unexpected token: operator needed")

\* How many tokens of the given type lie at the indices from..to.
CountType(type, from, to) ==
    Cardinality({k \in from..to : tokens[k + 1].type = type})

\* The closing parenthesis that matches an opening one at start: the first
\* one up to end with as many opening as closing ones in between; -1 when
\* there is none.
MatchingClose(start, end) ==
    LET matches == {j \in (start + 1)..end :
                      /\ tokens[j + 1].type = "closing_parenthesis"
                      /\ CountType("opening_parenthesis", start + 1, j - 1)
                           = CountType("closing_parenthesis", start + 1, j - 1)}
    IN  IF matches = {} THEN -1
        ELSE CHOOSE j \in matches : \A k \in matches : j <= k

\* The range start .. end is the whole input, or the inside of a pair of
\* matching parentheses.
InputOrParenthesized(start, end) ==
    \/ start = 0 /\ end = Len(tokens) - 1
    \/ \E open \in 0..(start - 1) :
          /\ tokens[open + 1].type = "opening_parenthesis"
          /\ MatchingClose(open, Len(tokens) - 1) = end + 1

\* The range the operand at Top.start is parsed in: the range of the
\* parse_range activation that asked for it.
CurrentRange ==
    LET ranges == {k \in 1..Len(stack) : stack[k].fn = "parse_range"}
        k      == CHOOSE j \in ranges : \A h \in ranges : h <= j
        outer  == {j \in ranges : stack[j].end = stack[k].end}
    IN  stack[CHOOSE j \in outer : \A h \in outer : j <= h]

\* C4: an operand expected at '+', '*', '/' or ')' fails with "Unexpected
\* token" at that token's offset, and at a '-' that is the last token of
\* the current range (the whole input or the inside of a pair of matching
\* parentheses) with "Orphan minus" at the '-'.
C4_OperandErrors ==
    [][ OperandExpected =>
          LET t == tokens[Top.start + 1] IN
          /\ Top.end = CurrentRange.end
          /\ InputOrParenthesized(CurrentRange.start, CurrentRange.end)
          /\ t.type \in {"plus", "multiply", "divide", "closing_parenthesis"}
               => thrown' = parse_exception(t.start_position, "Unexpected token")
          /\ (t.type = "minus" /\ Top.start = Top.end)
               => thrown' = parse_exception(t.start_position, "Orphan minus") ]_vars

\* "(-)" fails at offset 1 with "Orphan minus".
C4_Witness ==
    /\ formula = <<"(", "-", ")">>
    /\ thrown = parse_exception(1, "Orphan minus")

\* C5: an opening parenthesis taken as an operand fails at once, before
\* anything inside it is parsed, with "Unclosed parenthesis" at its offset
\* when no closing parenthesis matches it up to the end of the range, and
\* with "Empty parentheses" at its offset when the matching one is the
\* very next token.
C5_ParenthesesErrors ==
    [][ (OperandExpected /\ tokens[Top.start + 1].type = "opening_parenthesis") =>
          LET t == tokens[Top.start + 1]
              m == MatchingClose(Top.start, Top.end)
          IN  /\ m = -1
                   => thrown' = parse_exception(t.start_position, "Unclosed parenthesis")
              /\ m = Top.start + 1
                   => thrown' = parse_exception(t.start_position, "Empty parentheses") ]_vars

\* "((5)" fails at offset 0: the inner pair is closed, the outer one is not.
C5_Witness ==
    /\ formula = <<"(", "(", "2", ")">>
    /\ thrown = parse_exception(0, "Unclosed parenthesis")

\* C7: for an input of spaces only (or empty) tokenization ends without an
\* error and without a token, calculate then fails with "Empty input" at
\* position 0, and no token is ever read.
C7_EmptyInput ==
    (\A k \in 1..Len(formula) : formula[k] = " ") =>
        /\ tokens = <<>>
        /\ reads = {}
        /\ pc = "tokenize" => thrown = NoThrow
        /\ pc # "tokenize" => /\ i = Len(formula)
                              /\ thrown = parse_exception(0, "Empty input")

\* Two spaces: calculate has failed with "Empty input".
C7_Witness ==
    /\ formula = <<" ", " ">>
    /\ pc = "exit"
    /\ thrown = parse_exception(0, "Empty input")

\* The offsets at which a maximal run of digits and dots of the formula starts.
RunStarts ==
    {s \in 0..(Len(formula) - 1) :
        IsNumeric(formula[s + 1]) /\ (s = 0 \/ ~IsNumeric(formula[s]))}

\* The maximal run that starts at offset s.
RunAt(s) ==
    LET last == CHOOSE e \in s..(Len(formula) - 1) :
                    /\ \A k \in s..e : IsNumeric(formula[k + 1])
                    /\ (e = Len(formula) - 1 \/ ~IsNumeric(formula[e + 2]))
    IN  SubSeq(formula, s + 1, last + 1)

\* A run that is one decimal number with a normal finite value: at most
\* one dot, a non-zero digit, and an integer part of a finite double.
ValidNumber(run) ==
    LET dots    == {k \in 1..Len(run) : run[k] = "."}
        whole   == IF dots = {} THEN Len(run) ELSE (CHOOSE k \in dots : TRUE) - 1
        leading == CHOOSE z \in 0..whole :
                       /\ \A k \in 1..z : run[k] = "0"
                       /\ (z = whole \/ run[z + 1] # "0")
    IN  /\ Cardinality(dots) <= 1
        /\ \E k \in 1..Len(run) : IsDigit(run[k]) /\ run[k] # "0"
        /\ whole - leading <= MaxIntDigits

\* The offsets of the characters that are no digit, dot, space or symbol.
BadCharacters ==
    {k \in 0..(Len(formula) - 1) :
        ~IsNumeric(formula[k + 1]) /\ SymbolType(formula[k + 1]) = "default"}

BadRuns == {s \in RunStarts : ~ValidNumber(RunAt(s))}

\* The start positions of the Number tokens, in token order.
NumberStarts ==
    LET numbers == SelectSeq(tokens, LAMBDA t : t.type = "number")
    IN  [k \in 1..Len(numbers) |-> numbers[k].start_position]

\* The members of a set of offsets that lie below a limit, in ascending order.
RECURSIVE Ascending(_, _)
Ascending(S, limit) ==
    LET below == {x \in S : x < limit}
    IN  IF below = {} THEN <<>>
        ELSE LET top == CHOOSE x \in below : \A y \in below : y <= x
             IN  Append(Ascending(S, top), top)

\* The value of a valid run: its digits read as one integer, over ten to
\* the number of digits behind the dot.
RunValue(run) ==
    LET digits == SelectSeq(run, IsDigit)
        dots   == {k \in 1..Len(run) : run[k] = "."}
        behind == IF dots = {} THEN 0 ELSE Len(run) - (CHOOSE k \in dots : TRUE)
    IN  Norm(1, DigitsValue(digits, 1, Len(digits)), Pow10(behind))

\* C6: once tokenization has ended, every maximal run of digits and dots
\* it went through is exactly one Number token holding the run's value, and
\* a run is accepted only
\* if it is one decimal number with a normal finite value: otherwise the
\* tokenization has failed with a parse_exception at the offset of the
\* run's first character (unless an unexpected symbol comes before the
\* run, which fails first).
C6_NumberRuns ==
    pc # "tokenize" =>
        LET bad == BadRuns \cup BadCharacters
            m   == CHOOSE x \in bad : \A y \in bad : x <= y
        IN  /\ \A k \in 1..Len(tokens) :
                   tokens[k].type = "number"
                       => tokens[k].value = RunValue(RunAt(tokens[k].start_position))
            /\ bad = {} =>
                   /\ NumberStarts = Ascending(RunStarts, Len(formula))
                   /\ thrown.message \notin {"Number too long", "Unexpected symbol"}
            /\ bad # {} =>
                   /\ NumberStarts = Ascending(RunStarts, m)
                   /\ thrown = IF m \in BadRuns
                               THEN parse_exception(m, "Number too long")
                               ELSE parse_exception(m, "Unexpected symbol")

\* "3.3.3" is rejected at offset 0, the start of the run.
C6_Witness ==
    /\ formula = <<"3", ".", "3", ".", "3">>
    /\ thrown = parse_exception(0, "Number too long")

\* The line that points at offset p of the quoted input: n spaces, a caret.
CaretLine(n) == [k \in 1..(n + 1) |-> IF k <= n THEN " " ELSE "^"]

\* C8 as stated: after a parse_exception at position p the program prints
\* the input, a line of exactly p spaces and a caret, and the message, and
\* exits with a failure status; after a success it prints the result and
\* exits with success.
C8_CaretAfterPSpaces ==
    pc = "exit" =>
        /\ thrown.kind = "none" =>
               out.stdout = << <<result>> >> /\ out.status = "EXIT_SUCCESS"
        /\ (thrown.kind = "parse_exception" /\ thrown.start_position >= 0) =>
               /\ \E k \in 1..Len(out.stderr) :
                      out.stderr[k] = CaretLine(thrown.start_position)
               /\ out.status = "EXIT_FAILURE"

\* C8 as amended: after a parse_exception at a position p >= 0 the program
\* prints "Invalid input:", the input between double quotes, a line of
\* exactly p + 1 spaces and a caret (the caret under character p of the
\* quoted input), and the message, and exits with a failure status; after a
\* success it prints the result and exits with success.
C8_CaretAfterQuote ==
    pc = "exit" =>
        /\ thrown.kind = "none" =>
               out = [stdout |-> << <<result>> >>, stderr |-> <<>>,
                      status |-> "EXIT_SUCCESS"]
        /\ (thrown.kind = "parse_exception" /\ thrown.start_position >= 0) =>
               out = [stdout |-> <<>>,
                      stderr |-> << <<"Invalid input:">>,
                                    <<"\"">> \o formula \o <<"\"">>,
                                    CaretLine(thrown.start_position + 1),
                                    <<thrown.message>> >>,
                      status |-> "EXIT_FAILURE"]

\* "2 2" fails at offset 2: three spaces, then the caret.
C8_Witness ==
    /\ formula = <<"2", " ", "2">>
    /\ pc = "exit"
    /\ out.status = "EXIT_FAILURE"
    /\ out.stderr[3] = <<" ", " ", " ", "^">>

\* -x
DNeg(x) == IF IsNaN(x) THEN NaN ELSE <<-x[1], x[2], x[3]>>

NoGrouping == [ok |-> FALSE, value |-> Zero, next |-> 0]

TypeAt(k) == IF InBounds(k) THEN tokens[k + 1].type ELSE ""

\* The reference grouping of the tokens from index k on, as the value it
\* has and the index behind it:
\*   expression = term { ('+' | '-') term }      grouped left to right
\*   term       = factor { ('*' | '/') factor }  grouped left to right
\*   factor     = number | '-' factor | '(' expression ')'
RECURSIVE RefExpression(_), RefExpressionRest(_, _), RefTerm(_),
          RefTermRest(_, _), RefFactor(_)
RefFactor(k) ==
    CASE TypeAt(k) = "number" -> [ok |-> TRUE, value |-> tokens[k + 1].value, next |-> k + 1]
      [] TypeAt(k) = "minus" ->
             LET f == RefFactor(k + 1)
             IN  IF f.ok THEN [f EXCEPT !.value = DNeg(f.value)] ELSE NoGrouping
      [] TypeAt(k) = "opening_parenthesis" ->
             LET e == RefExpression(k + 1)
             IN  IF e.ok /\ TypeAt(e.next) = "closing_parenthesis"
                 THEN [e EXCEPT !.next = e.next + 1] ELSE NoGrouping
      [] OTHER -> NoGrouping

RefTermRest(left, k) ==
    IF TypeAt(k) \in {"multiply", "divide"}
    THEN LET f == RefFactor(k + 1)
         IN  IF ~f.ok THEN NoGrouping
             ELSE RefTermRest(IF TypeAt(k) = "multiply" THEN DMul(left, f.value)
                              ELSE DDiv(left, f.value), f.next)
    ELSE [ok |-> TRUE, value |-> left, next |-> k]

RefTerm(k) ==
    LET f == RefFactor(k) IN IF f.ok THEN RefTermRest(f.value, f.next) ELSE NoGrouping

RefExpressionRest(left, k) ==
    IF TypeAt(k) \in {"plus", "minus"}
    THEN LET t == RefTerm(k + 1)
         IN  IF ~t.ok THEN NoGrouping
             ELSE RefExpressionRest(IF TypeAt(k) = "plus" THEN DAdd(left, t.value)
                                    ELSE DSub(left, t.value), t.next)
    ELSE [ok |-> TRUE, value |-> left, next |-> k]

RefExpression(k) ==
    LET t == RefTerm(k) IN IF t.ok THEN RefExpressionRest(t.value, t.next) ELSE NoGrouping

\* The reference grouping of the whole token sequence.
Reference ==
    LET e == RefExpression(0)
    IN  IF e.ok /\ e.next = Len(tokens) THEN e ELSE NoGrouping

\* Every read of the parser so far was of a token of the vector.
ReadsInside == reads \subseteq 0..(Len(tokens) - 1)

\* C1: when calculate returns a value, the token sequence has a reference
\* grouping ('*' and '/' before '+' and '-', equal precedence left to right,
\* a unary '-' on the one operand behind it, a parenthesized expression as
\* a unit) and the value is the value of that grouping.
C1_ReferenceGrouping ==
    (pc = "exit" /\ thrown.kind = "none") =>
        Reference.ok /\ result = Reference.value

\* C1 for the runs in which no read leaves the token vector.
C1_ReferenceGroupingInside ==
    (pc = "exit" /\ thrown.kind = "none" /\ ReadsInside) =>
        Reference.ok /\ result = Reference.value

\* And every sequence with a reference grouping is evaluated.
Reference_Accepted ==
    (pc = "exit" /\ Reference.ok) => thrown.kind = "none" /\ result = Reference.value

\* C9: a node parse_operand or parse_range returns for (start, end) is
\* built from the tokens start .. start + consumed_tokens() - 1, which lie
\* inside start .. end, and the tree parse() returns consumed every token.
C9_ConsumedTokens ==
    ret # NoRet =>
        LET n == consumed_tokens(ret.expr) IN
        /\ n <= ret.end - ret.start + 1
        /\ ret.start + n <= Len(tokens)
        /\ TokensOf(ret.expr) = [k \in 1..n |-> tokens[ret.start + k].type]
        /\ stack = <<>> => n = Len(tokens)

\* C9 for the runs in which no read leaves the token vector.
C9_ConsumedTokensInside ==
    (ret # NoRet /\ ReadsInside) =>
        LET n == consumed_tokens(ret.expr) IN
        /\ n <= ret.end - ret.start + 1
        /\ ret.start + n <= Len(tokens)
        /\ TokensOf(ret.expr) = [k \in 1..n |-> tokens[ret.start + k].type]
        /\ stack = <<>> => n = Len(tokens)

\* The activation below activation k that is of the same function.
Enclosing(k) ==
    LET same == {j \in 1..(k - 1) : stack[j].fn = stack[k].fn}
    IN  IF same = {} THEN 0 ELSE CHOOSE j \in same : \A h \in same : h <= j

\* The measure the termination argument rests on: in every activation of
\* parse_range the consumed-token count stays within the tokens available,
\* and an activation is entered on a range that starts strictly later than
\* the range of the activation of the same function around it.
ProgressMeasure ==
    \A k \in 1..Len(stack) :
        /\ stack[k].fn = "parse_range"
              => stack[k].consumed <= stack[k].end - stack[k].start + 1
        /\ Enclosing(k) # 0
              => /\ stack[k].start > stack[Enclosing(k)].start
                 /\ stack[k].end <= stack[Enclosing(k)].end

\* C10: calculate terminates: it is never stuck before main has ended, the
\* lexer goes left to right, every loop iteration of parse_range that
\* neither returns nor throws strictly increases the consumed-token count
\* towards the number of available tokens, and recursion goes to ranges
\* that start strictly later.
C10_Termination ==
    /\ pc # "exit" => ENABLED Next
    /\ pc = "tokenize" => i <= Len(formula)
    /\ ProgressMeasure

\* C10 for the runs in which no read leaves the token vector.
C10_TerminationInside ==
    ReadsInside =>
        /\ pc # "exit" => ENABLED Next
        /\ pc = "tokenize" => i <= Len(formula)
        /\ ProgressMeasure

\* The program runs on while it can: nothing suspends it.
FairSpec == Spec /\ WF_vars(Next)

\* Every run of main ends.
Terminates == <>(pc = "exit")

====
